---- MODULE Spec2Model ----
(***************************************************************************)
(* A model of logo.py: the Lexer (character level), the recursive-descent  *)
(* LogoParser driven by that Lexer, the Environment chain and the          *)
(* tree-walking evaluator run().                                           *)
(*                                                                         *)
(* Text is a sequence of one-character strings, indexed from 0 as in the   *)
(* source (text[i] of the source is text[i + 1] here).  Python's None is   *)
(* NoChar for a character, NoToken for a token, NoneValue for a value.     *)
(* Numbers are exact decimals in fixed point: a float f is the integer     *)
(* f * Scale.                                                              *)
(***************************************************************************)
EXTENDS Integers, Sequences, FiniteSets, TLC

VARIABLES
    text,       \* Lexer.text
    lexer,      \* Lexer: [index, position, buffer]
    lstatus,    \* how the last Lexer call ended: "ok", an exception, or "hang"
    hist,       \* history of the Lexer calls made (SpecLexer)
    ref,        \* a second Lexer on the same text that is never peeked (SpecLexer)
    pstack,     \* LogoParser: the loops that are collecting instructions, innermost last
    pstatus,    \* LogoParser: "running", "done", or the exception that ended parse()
    presult,    \* what parse() returned
    pinfo,      \* history of the parser: the last instruction parsed, the stalls
    envs,       \* the Environments created, the global one first
    estack,     \* the activations of run(), innermost last
    device,     \* the commands the turtle has received, in order
    estatus,    \* run(): "running", "done", or the exception that ended it
    einfo       \* history of run(): the error raised, the lookups of the last step,
                \* the REPEATs completed, the expressions evaluated

vars == <<text, lexer, lstatus, hist, ref, pstack, pstatus, presult, pinfo,
          envs, estack, device, estatus, einfo>>
lexerVars == <<lstatus, hist, ref>>
parserVars == <<pstack, pstatus, presult, pinfo>>
evalVars == <<envs, estack, device, estatus, einfo>>

-----------------------------------------------------------------------------
(* Bounds of the model *)

\* longest text over LexAlphabet that SpecLexer starts from
MaxLen == 3
\* most consecutive peek() calls SpecLexer makes
MaxPeeks == 2
\* most Environments SpecEnv creates, the root included
MaxEnvs == 3
\* digits kept after the decimal point by the fixed-point numbers
FracDigits == 1
\* most words of a text that SpecParser starts from
MaxWords == 3
\* most iterations SpecParser follows a loop that consumes nothing
MaxStall == 2
\* most instructions SpecEval's programs add to the library of procedures
MaxMain == 2

-----------------------------------------------------------------------------
(* Characters *)

Range(s) == {s[i] : i \in 1..Len(s)}

LowerSeq == <<"a","b","c","d","e","f","g","h","i","j","k","l","m",
              "n","o","p","q","r","s","t","u","v","w","x","y","z">>
UpperSeq == <<"A","B","C","D","E","F","G","H","I","J","K","L","M",
              "N","O","P","Q","R","S","T","U","V","W","X","Y","Z">>
DigitSeq == <<"0","1","2","3","4","5","6","7","8","9">>

\* str.isalpha, str.isnumeric, str.isspace on the ASCII characters
AlphaChars == Range(LowerSeq) \cup Range(UpperSeq)
NumericChars == Range(DigitSeq)
SpaceChars == {" ", "\n", "\t"}
\* is_identifier_char: c.isalnum() or c == '_'
IdentifierChars == AlphaChars \cup NumericChars \cup {"_"}

\* str.casefold
CasefoldChar(c) ==
    IF c \in Range(UpperSeq)
    THEN LowerSeq[CHOOSE i \in 1..Len(UpperSeq) : UpperSeq[i] = c]
    ELSE c
Casefold(s) == [i \in 1..Len(s) |-> CasefoldChar(s[i])]

NoChar == ""

-----------------------------------------------------------------------------
(* Tokens *)

\* the spelling of each keyword, in the order pop() compares them
Keywords ==
    << [kind |-> "REPEAT",   word |-> <<"r","e","p","e","a","t">>],
       [kind |-> "ROTATE",   word |-> <<"r","o","t","a","t","e">>],
       [kind |-> "BACKWARD", word |-> <<"b","a","c","k","w","a","r","d">>],
       [kind |-> "FORWARD",  word |-> <<"f","o","r","w","a","r","d">>],
       [kind |-> "PENUP",    word |-> <<"p","e","n","u","p">>],
       [kind |-> "PENDOWN",  word |-> <<"p","e","n","d","o","w","n">>],
       [kind |-> "TO",       word |-> <<"t","o">>],
       [kind |-> "END",      word |-> <<"e","n","d">>] >>

TokenKind == {"REPEAT", "ROTATE", "FORWARD", "BACKWARD", "PENUP", "PENDOWN",
              "[", "]", "NUMBER", "SYMBOL", "IDENTIFIER", "TO", "END", "EOF"}

\* Token(kind, position, content); content <<>> stands for content=None
Token(kind, position, content) ==
    [kind |-> kind, position |-> position, content |-> content]

\* the value None where a Token is expected
NoToken == [kind |-> "None", position |-> [line_num |-> 0, char |-> 0], content |-> <<>>]

-----------------------------------------------------------------------------
(* Lexer *)

\* F applied to the value of v: v is evaluated once, here, and F gets its
\* value, as a Python local variable holds the value of the call it was
\* assigned from.
Bind(v, F(_)) == CHOOSE y \in {F(x) : x \in {v}} : TRUE

\* Lexer.__init__
NewLexer == [index |-> 0, position |-> [line_num |-> 1, char |-> 0], buffer |-> <<>>]

\* Lexer._peek_c
PeekC(t, lx, offset) ==
    IF lx.index + offset < Len(t) THEN t[lx.index + offset + 1] ELSE NoChar

\* FilePosition after one more character c was consumed (the loop body of _advance)
AdvanceChar(p, c) ==
    IF c = "\n" THEN [line_num |-> p.line_num + 1, char |-> 0]
    ELSE [line_num |-> p.line_num, char |-> p.char + 1]

RECURSIVE AdvancePosition(_, _, _, _)
AdvancePosition(t, i, end_i, p) ==
    IF i >= end_i \/ i >= Len(t) THEN p
    ELSE Bind(AdvanceChar(p, t[i + 1]), LAMBDA q : AdvancePosition(t, i + 1, end_i, q))

\* Lexer._advance.  Every caller has checked that index + offset <= len(text),
\* so its 'Lexer cannot advance' error is never raised.
Advance(t, lx, offset) ==
    [lx EXCEPT !.position = AdvancePosition(t, lx.index, lx.index + offset, lx.position),
               !.index = lx.index + offset]

\* Lexer._pop_c with size=1: [c, lx]
PopC(t, lx) ==
    IF lx.index + 1 > Len(t) THEN [c |-> NoChar, lx |-> lx]
    ELSE [c |-> t[lx.index + 1], lx |-> Advance(t, lx, 1)]

\* Lexer.get_while(cond), cond given as the set of characters it accepts: [res, lx]
RECURSIVE GetWhile(_, _, _)
GetWhile(t, lx, chars) ==
    IF PeekC(t, lx, 0) = NoChar \/ PeekC(t, lx, 0) \notin chars
    THEN [res |-> <<>>, lx |-> lx]
    ELSE Bind(Advance(t, lx, 1), LAMBDA lx1 :
         Bind(GetWhile(t, lx1, chars), LAMBDA r :
         [res |-> <<PeekC(t, lx, 0)>> \o r.res, lx |-> r.lx]))

\* The inner loop of eat_spaces: while True: c = _pop_c(); if c == '\n': break.
\* At the end of the text _pop_c returns None and changes nothing, the test
\* fails and the next iteration is the same: the loop never exits (hang).
RECURSIVE CommentLoop(_, _)
CommentLoop(t, lx) ==
    Bind(PopC(t, lx), LAMBDA r :
        IF r.c = NoChar THEN [hang |-> TRUE, lx |-> lx]
        ELSE IF r.c = "\n" THEN [hang |-> FALSE, lx |-> r.lx]
        ELSE CommentLoop(t, r.lx))

\* Lexer.eat_spaces: [hang, lx]
RECURSIVE EatSpaces(_, _)
EatSpaces(t, lx) ==
    Bind(GetWhile(t, lx, SpaceChars), LAMBDA s :
        IF PeekC(t, s.lx, 0) = NoChar THEN [hang |-> FALSE, lx |-> s.lx]
        ELSE IF PeekC(t, s.lx, 0) = "#"
        THEN Bind(Advance(t, s.lx, 1), LAMBDA lx1 :
             Bind(CommentLoop(t, lx1), LAMBDA r :
             IF r.hang THEN r ELSE EatSpaces(t, r.lx)))
        ELSE IF s.res = <<>> THEN [hang |-> FALSE, lx |-> s.lx]
        ELSE EatSpaces(t, s.lx))

\* a call's result: how it ended, the token it returned, the Lexer after it
Returned(tok, lx) == [out |-> "ok", tok |-> tok, lx |-> lx]
Raised(exc, lx) == [out |-> exc, tok |-> NoToken, lx |-> lx]

\* the keyword chain of pop(): the kind of the first keyword equal to the
\* casefolded identifier, "IDENTIFIER" when there is none
RECURSIVE KeywordKind(_, _)
KeywordKind(folded, i) ==
    IF i > Len(Keywords) THEN "IDENTIFIER"
    ELSE IF folded = Keywords[i].word THEN Keywords[i].kind
    ELSE KeywordKind(folded, i + 1)

\* pop(), a letter c read: a keyword or an IDENTIFIER
PopIdentifier(t, lx, c) ==
    Bind(GetWhile(t, lx, IdentifierChars), LAMBDA w :
    Bind(KeywordKind(Casefold(<<c>> \o w.res), 1), LAMBDA kind :
        Returned(Token(kind, w.lx.position,
                       IF kind = "IDENTIFIER" THEN <<c>> \o w.res ELSE <<>>),
                 w.lx)))

\* pop(), ':' read: a SYMBOL
PopSymbol(t, lx, c) ==
    Bind(GetWhile(t, lx, IdentifierChars), LAMBDA w :
        Returned(Token("SYMBOL", w.lx.position, <<c>> \o w.res), w.lx))

\* pop(), the number branch, c being the first character after an optional '-'
PopNumber(t, lx, c, is_negative) ==
    IF c = NoChar THEN Raised("AttributeError", lx)      \* None.isnumeric()
    ELSE IF c \in NumericChars
    THEN Bind(GetWhile(t, lx, NumericChars), LAMBDA digits :
         Bind((IF is_negative THEN <<"-">> ELSE <<>>) \o <<c>> \o digits.res,
              LAMBDA number_literal :
             IF PeekC(t, digits.lx, 0) = "."
             THEN Bind(Advance(t, digits.lx, 1), LAMBDA lx1 :
                  Bind(GetWhile(t, lx1, NumericChars), LAMBDA rational_part :
                      IF rational_part.res = <<>>
                      THEN Returned(NoToken, rational_part.lx)    \* return None
                      ELSE Returned(Token("NUMBER", rational_part.lx.position,
                                          number_literal \o <<".">> \o rational_part.res),
                                    rational_part.lx)))
             ELSE Returned(Token("NUMBER", digits.lx.position, number_literal),
                           digits.lx)))
    ELSE IF is_negative THEN Raised("AssertionError", lx)  \* assert not is_negative
    ELSE Returned(NoToken, lx)                             \* falls off the end: None

\* pop(), after eat_spaces and c = _pop_c()
PopToken(t, lx, c) ==
    IF c = NoChar THEN Returned(Token("EOF", lx.position, <<>>), lx)
    ELSE IF c = "[" THEN Returned(Token("[", lx.position, <<>>), lx)
    ELSE IF c = "]" THEN Returned(Token("]", lx.position, <<>>), lx)
    ELSE IF c \in AlphaChars THEN PopIdentifier(t, lx, c)
    ELSE IF c = ":" THEN PopSymbol(t, lx, c)
    ELSE IF c = "-" THEN Bind(PopC(t, lx), LAMBDA q : PopNumber(t, q.lx, q.c, TRUE))
    ELSE PopNumber(t, lx, c, FALSE)

\* pop() when the buffer is empty
PopText(t, lx) ==
    Bind(EatSpaces(t, lx), LAMBDA e :
        IF e.hang THEN [out |-> "hang", tok |-> NoToken, lx |-> e.lx]
        ELSE Bind(PopC(t, e.lx), LAMBDA p : PopToken(t, p.lx, p.c)))

\* Lexer.pop
Pop(t, lx) ==
    IF lx.buffer # <<>>
    THEN Returned(Head(lx.buffer), [lx EXCEPT !.buffer = Tail(lx.buffer)])
    ELSE PopText(t, lx)

\* peek() that forgets to keep the token it read
PeekUnbuffered(t, lx) ==
    IF lx.buffer # <<>> THEN Returned(lx.buffer[1], lx) ELSE Pop(t, lx)

\* Lexer.peek
Peek(t, lx) ==
    IF lx.buffer # <<>> THEN Returned(lx.buffer[1], lx)
    ELSE Bind(Pop(t, lx), LAMBDA r :
            IF r.out # "ok" THEN r
            ELSE Returned(r.tok, [r.lx EXCEPT !.buffer = Append(r.lx.buffer, r.tok)]))

\* Lexer.match
Match(t, lx, expected_kind) ==
    Bind(Pop(t, lx), LAMBDA r :
        IF r.out # "ok" THEN r
        ELSE IF r.tok = NoToken THEN r
        ELSE IF r.tok.kind # expected_kind THEN Raised("LogoParserError", r.lx)
        ELSE r)

\* Lexer.maybe_match
MaybeMatch(t, lx, expected_kind) ==
    Bind(Pop(t, lx), LAMBDA r :
        IF r.out # "ok" THEN r
        ELSE IF r.tok = NoToken THEN r
        ELSE IF r.tok.kind # expected_kind
        THEN Returned(NoToken, [r.lx EXCEPT !.buffer = Append(r.lx.buffer, r.tok)])
        ELSE r)

-----------------------------------------------------------------------------
(* Numbers: float(content) as an exact decimal in fixed point *)

RECURSIVE Pow10(_)
Pow10(n) == IF n = 0 THEN 1 ELSE 10 * Pow10(n - 1)

Scale == Pow10(FracDigits)

DigitValue(c) == (CHOOSE i \in 1..Len(DigitSeq) : DigitSeq[i] = c) - 1

RECURSIVE DigitsValue(_)
DigitsValue(s) ==
    IF s = <<>> THEN 0
    ELSE 10 * DigitsValue(SubSeq(s, 1, Len(s) - 1)) + DigitValue(s[Len(s)])

\* the first FracDigits digits of a fractional part, padded with zeros
RECURSIVE FractionDigits(_, _)
FractionDigits(s, n) ==
    IF n = 0 THEN <<>>
    ELSE IF s = <<>> THEN <<"0">> \o FractionDigits(s, n - 1)
    ELSE <<Head(s)>> \o FractionDigits(Tail(s), n - 1)

\* float() of a NUMBER token's content: -?digits(.digits)?
Float(content) ==
    LET negative == content[1] = "-"
        unsigned == IF negative THEN Tail(content) ELSE content
        dots == {i \in 1..Len(unsigned) : unsigned[i] = "."}
        dot == IF dots = {} THEN Len(unsigned) + 1 ELSE CHOOSE i \in dots : TRUE
        magnitude == DigitsValue(SubSeq(unsigned, 1, dot - 1)) * Scale
                     + DigitsValue(FractionDigits(SubSeq(unsigned, dot + 1, Len(unsigned)),
                                                  FracDigits))
    IN  IF negative THEN 0 - magnitude ELSE magnitude

-----------------------------------------------------------------------------
(* AST *)

\* None where a node, an expression or a value is expected
NoneValue == [tag |-> "None"]
\* a float
Number(v) == [tag |-> "num", v |-> v]

AstRotate(n) == [tag |-> "Rotate", n |-> n]
AstForward(n) == [tag |-> "Forward", n |-> n]
AstBackward(n) == [tag |-> "Backward", n |-> n]
AstPenUp == [tag |-> "PenUp"]
AstPenDown == [tag |-> "PenDown"]
AstRepeat(times, block) == [tag |-> "Repeat", times |-> times, block |-> block]
AstBlock(instructions) == [tag |-> "Block", body |-> instructions]
AstProcedure(name, arguments, instructions) ==
    [tag |-> "Procedure", name |-> name, arguments |-> arguments,
     body |-> AstBlock(instructions)]
AstProcedureCall(procedure_name, arguments) ==
    [tag |-> "ProcedureCall", procedure_name |-> procedure_name, arguments |-> arguments]
AstSymbolReference(name) == [tag |-> "SymbolReference", name |-> name]

\* Python's truth value of a value the program handles: None and 0.0 are
\* false, every object of a class without __bool__ or __len__ is true
Truthy(v) ==
    IF v.tag = "None" THEN FALSE
    ELSE IF v.tag = "num" THEN v.v # 0
    ELSE TRUE

-----------------------------------------------------------------------------
(* LogoParser *)

\* what a parsing function did: how it ended, what it returned, the Lexer after it
ParseFailed(exc, lx) == [out |-> exc, val |-> NoneValue, lx |-> lx]
Parsed(val, lx) == [out |-> "ok", val |-> val, lx |-> lx]

\* LogoParser.parse_expression
ParseExpression(t, lx) ==
    Bind(MaybeMatch(t, lx, "NUMBER"), LAMBDA number_token :
        IF number_token.out # "ok" THEN ParseFailed(number_token.out, number_token.lx)
        ELSE IF number_token.tok # NoToken
        THEN Parsed(Number(Float(number_token.tok.content)), number_token.lx)
        ELSE Bind(MaybeMatch(t, number_token.lx, "SYMBOL"), LAMBDA symbol_token :
            IF symbol_token.out # "ok" THEN ParseFailed(symbol_token.out, symbol_token.lx)
            ELSE IF symbol_token.tok # NoToken
            THEN Parsed(AstSymbolReference(symbol_token.tok.content), symbol_token.lx)
            ELSE Parsed(NoneValue, symbol_token.lx)))

\* parse_instruction, TO branch: while symbol := maybe_match(SYMBOL): arguments.append(...)
RECURSIVE ParseParameters(_, _)
ParseParameters(t, lx) ==
    Bind(MaybeMatch(t, lx, "SYMBOL"), LAMBDA symbol :
        IF symbol.out # "ok" THEN ParseFailed(symbol.out, symbol.lx)
        ELSE IF symbol.tok = NoToken THEN Parsed(<<>>, symbol.lx)
        ELSE Bind(ParseParameters(t, symbol.lx), LAMBDA rest :
            IF rest.out # "ok" THEN rest
            ELSE Parsed(<<symbol.tok.content>> \o rest.val, rest.lx)))

\* parse_instruction, call branch: while expr := parse_expression(): arguments.append(expr)
RECURSIVE ParseArguments(_, _)
ParseArguments(t, lx) ==
    Bind(ParseExpression(t, lx), LAMBDA expr :
        IF expr.out # "ok" THEN expr
        ELSE IF ~Truthy(expr.val) THEN Parsed(<<>>, expr.lx)
        ELSE Bind(ParseArguments(t, expr.lx), LAMBDA rest :
            IF rest.out # "ok" THEN rest
            ELSE Parsed(<<expr.val>> \o rest.val, rest.lx)))

\* the kinds parse_instruction tries with maybe_match, in its order
InstructionKinds ==
    <<"TO", "ROTATE", "FORWARD", "BACKWARD", "PENDOWN", "PENUP", "REPEAT", "IDENTIFIER">>

\* the chain of 'if self.lexer.maybe_match(kind)' of parse_instruction from the
\* i-th on: the first token matched (NoToken when none is) and the Lexer after
RECURSIVE MatchInstructionKind(_, _, _)
MatchInstructionKind(t, lx, i) ==
    Bind(MaybeMatch(t, lx, InstructionKinds[i]), LAMBDA r :
        IF r.out # "ok" \/ r.tok # NoToken \/ i = Len(InstructionKinds) THEN r
        ELSE MatchInstructionKind(t, r.lx, i + 1))

\* A loop of the parser that is collecting instructions, or a REPEAT waiting
\* for its single instruction: the activation records of parse ("file"),
\* parse_block after '[' ("block"), parse_instruction inside TO ("to") and
\* parse_instruction inside REPEAT whose block has no '[' ("single").
Frame(kind, times, name, arguments) ==
    [kind |-> kind, items |-> <<>>, times |-> times, name |-> name,
     arguments |-> arguments]

\* what parse_instruction did up to the point where it returns a node
\* ("node") or enters a loop of its own ("push"); start is the Lexer once the
\* instruction's first token was matched
Instruction(node, lx, start) ==
    [out |-> "ok", act |-> "node", node |-> node, frame |-> NoneValue, lx |-> lx,
     start |-> start]
Enter(frame, lx) ==
    [out |-> "ok", act |-> "push", node |-> NoneValue, frame |-> frame, lx |-> lx,
     start |-> lx]
InstructionFailed(exc, lx) ==
    [out |-> exc, act |-> "raise", node |-> NoneValue, frame |-> NoneValue, lx |-> lx,
     start |-> lx]

\* parse_instruction after maybe_match(TO): the name and the parameters
ParseTo(t, lx) ==
    Bind(Match(t, lx, "IDENTIFIER"), LAMBDA name_identifier :
        IF name_identifier.out # "ok"
        THEN InstructionFailed(name_identifier.out, name_identifier.lx)
        ELSE Bind(ParseParameters(t, name_identifier.lx), LAMBDA arguments :
            IF arguments.out # "ok" THEN InstructionFailed(arguments.out, arguments.lx)
            ELSE Enter(Frame("to", NoneValue, name_identifier.tok, arguments.val),
                       arguments.lx)))

\* parse_instruction after maybe_match(ROTATE / FORWARD / BACKWARD)
ParseMove(t, lx, kind) ==
    Bind(ParseExpression(t, lx), LAMBDA n :
        IF n.out # "ok" THEN InstructionFailed(n.out, n.lx)
        ELSE Instruction(IF kind = "ROTATE" THEN AstRotate(n.val)
                         ELSE IF kind = "FORWARD" THEN AstForward(n.val)
                         ELSE AstBackward(n.val),
                         n.lx, lx))

\* parse_instruction after maybe_match(REPEAT): the count, then parse_block
\* up to its maybe_match(LBRACE)
ParseRepeat(t, lx) ==
    Bind(ParseExpression(t, lx), LAMBDA times :
        IF times.out # "ok" THEN InstructionFailed(times.out, times.lx)
        ELSE Bind(MaybeMatch(t, times.lx, "["), LAMBDA brace :
            IF brace.out # "ok" THEN InstructionFailed(brace.out, brace.lx)
            ELSE Enter(Frame(IF brace.tok # NoToken THEN "block" ELSE "single",
                             times.val, NoToken, <<>>),
                       brace.lx)))

\* parse_instruction after maybe_match(IDENTIFIER)
ParseCall(t, lx, name_token) ==
    Bind(ParseArguments(t, lx), LAMBDA arguments :
        IF arguments.out # "ok" THEN InstructionFailed(arguments.out, arguments.lx)
        ELSE Instruction(AstProcedureCall(name_token.content, arguments.val),
                         arguments.lx, lx))

\* LogoParser.parse_instruction
ParseInstruction(t, lx) ==
    Bind(MatchInstructionKind(t, lx, 1), LAMBDA m :
        IF m.out # "ok" THEN InstructionFailed(m.out, m.lx)
        ELSE IF m.tok = NoToken THEN Instruction(NoneValue, m.lx, m.lx)   \* returns None
        ELSE IF m.tok.kind = "TO" THEN ParseTo(t, m.lx)
        ELSE IF m.tok.kind \in {"ROTATE", "FORWARD", "BACKWARD"}
        THEN ParseMove(t, m.lx, m.tok.kind)
        ELSE IF m.tok.kind = "PENDOWN" THEN Instruction(AstPenDown, m.lx, m.lx)
        ELSE IF m.tok.kind = "PENUP" THEN Instruction(AstPenUp, m.lx, m.lx)
        ELSE IF m.tok.kind = "REPEAT" THEN ParseRepeat(t, m.lx)
        ELSE ParseCall(t, m.lx, m.tok))

Top(stack) == stack[Len(stack)]
Pop1(stack) == SubSeq(stack, 1, Len(stack) - 1)

\* A parsing function returns node to its caller: a REPEAT waiting for its
\* single instruction returns AstRepeat(times, node) to its own caller, a
\* loop appends the node to its list.
RECURSIVE Deliver(_, _)
Deliver(stack, node) ==
    IF Top(stack).kind = "single"
    THEN Deliver(Pop1(stack), AstRepeat(Top(stack).times, node))
    ELSE [stack EXCEPT ![Len(stack)].items = Append(@, node)]

\* the token that ends the loop of a frame
Closer(kind) ==
    IF kind = "file" THEN "EOF" ELSE IF kind = "block" THEN "]" ELSE "END"

\* the state of the parser: [status, stack, result, lx, last, start]
ParserState(status, stack, result, lx, last, start) ==
    [status |-> status, stack |-> stack, result |-> result, lx |-> lx,
     last |-> last, start |-> start]

\* the loop of the top frame ends: parse returns the Block, parse_block
\* returns to REPEAT, the TO branch returns the AstProcedure
CloseFrame(stack, lx) ==
    IF Top(stack).kind = "file"
    THEN ParserState("done", <<>>, AstBlock(Top(stack).items), lx, NoneValue, lx)
    ELSE IF Top(stack).kind = "block"
    THEN ParserState("running",
                     Deliver(Pop1(stack),
                             AstRepeat(Top(stack).times, AstBlock(Top(stack).items))),
                     NoneValue, lx, NoneValue, lx)
    ELSE IF Top(stack).name = NoToken         \* name_identifier.content of None
    THEN ParserState("AttributeError", stack, NoneValue, lx, NoneValue, lx)
    ELSE ParserState("running",
                     Deliver(Pop1(stack),
                             AstProcedure(Top(stack).name.content, Top(stack).arguments,
                                          Top(stack).items)),
                     NoneValue, lx, NoneValue, lx)

\* the body of a loop (or the single instruction of a REPEAT): parse_instruction
\* and what is done with what it returns
ParseOne(t, lx, stack) ==
    Bind(ParseInstruction(t, lx), LAMBDA i :
        IF i.out # "ok" THEN ParserState(i.out, stack, NoneValue, i.lx, NoneValue, i.lx)
        ELSE IF i.act = "push"
        THEN ParserState("running", Append(stack, i.frame), NoneValue, i.lx, NoneValue, i.lx)
        ELSE ParserState("running", Deliver(stack, i.node), NoneValue, i.lx, i.node, i.start))

\* One iteration of the innermost loop of the parser that is running:
\*   parse:                 if maybe_match(EOF): break       else parse_instruction
\*   parse_block:           while not maybe_match(RBRACE):        parse_instruction
\*   parse_instruction, TO: while not maybe_match(END):           parse_instruction
\* or the single instruction of a REPEAT without '['.
ParserIteration(t, lx, stack) ==
    IF Top(stack).kind = "single" THEN ParseOne(t, lx, stack)
    ELSE Bind(MaybeMatch(t, lx, Closer(Top(stack).kind)), LAMBDA closer :
        IF closer.out # "ok"
        THEN ParserState(closer.out, stack, NoneValue, closer.lx, NoneValue, closer.lx)
        ELSE IF closer.tok # NoToken THEN CloseFrame(stack, closer.lx)
        ELSE ParseOne(t, closer.lx, stack))

\* An iteration of a loop, from lx and stack to s, that leaves the Lexer as
\* it was and has only appended None to the list of the loop: the next
\* iteration starts from the same Lexer in the same loop and does the same.
Stalled(s, lx, stack) ==
    /\ s.status = "running"
    /\ s.lx = lx
    /\ s.stack = [stack EXCEPT ![Len(stack)].items = Append(@, NoneValue)]

\* LogoParser(f).parse() from its first iteration to its return or its
\* exception; the parser as it stalls when a loop stops consuming
RECURSIVE ParseLoop(_, _, _)
ParseLoop(t, lx, stack) ==
    Bind(ParserIteration(t, lx, stack), LAMBDA s :
        IF s.status = "running" /\ ~Stalled(s, lx, stack)
        THEN ParseLoop(t, s.lx, s.stack) ELSE s)

Parse(t) == ParseLoop(t, NewLexer, <<Frame("file", NoneValue, NoToken, <<>>)>>)

-----------------------------------------------------------------------------
(* Environment *)

\* Environment.__init__; parent 0 is parent=None
NewEnvironment(parent) == [names |-> <<>>, parent |-> parent]

\* Environment.create_child: the environments with a child of e added last
CreateChild(es, e) == Append(es, NewEnvironment(e))

\* Environment.set
EnvSet(es, e, name, value) ==
    [es EXCEPT ![e].names = [n \in DOMAIN @ \cup {name} |-> IF n = name THEN value ELSE @[n]]]

\* dict.get(name)
DictGet(names, name) == IF name \in DOMAIN names THEN names[name] ELSE NoneValue

\* Environment.resolve
RECURSIVE Resolve(_, _, _)
Resolve(es, e, name) ==
    IF Truthy(DictGet(es[e].names, name)) THEN DictGet(es[e].names, name)
    ELSE IF es[e].parent # 0 THEN Resolve(es, es[e].parent, name)
    ELSE NoneValue

-----------------------------------------------------------------------------
(* run *)

\* evaluate_expression
EvaluateExpression(expr, es, e) ==
    IF expr.tag = "SymbolReference" THEN Resolve(es, e, expr.name) ELSE expr

\* the lookups evaluate_expression makes: [env, name, value]
Lookups(expr, es, e) ==
    IF expr.tag = "SymbolReference"
    THEN <<[env |-> e, name |-> expr.name, value |-> Resolve(es, e, expr.name)]>>
    ELSE <<>>

\* round(times) instead of int(times)
TruncRounded(v) ==
    IF v >= 0 THEN (2 * v + Scale) \div (2 * Scale)
    ELSE 0 - ((2 * (0 - v) + Scale) \div (2 * Scale))

\* int(times) of a float: truncation toward zero
Trunc(v) == IF v >= 0 THEN v \div Scale ELSE 0 - ((0 - v) \div Scale)

\* an activation of run(node, environment, turtle).  phase: 0 before the
\* node's own work, 1 once a Repeat has its count or a ProcedureCall its
\* body running; k: the children of a Block or the iterations of a Repeat
\* started; times, n: the value of a Repeat's count and int() of it; dev0,
\* dev1: the number of device commands issued when the Repeat got its count
\* and when it returned.
RunFrame(node, e) ==
    [node |-> node, env |-> e, phase |-> 0, k |-> 0, times |-> NoneValue, n |-> 0,
     dev0 |-> 0, dev1 |-> 0]

\* the turtle method run() calls for a node
DeviceMethod(tag) ==
    IF tag = "Forward" THEN "forward"
    ELSE IF tag = "Backward" THEN "backward"
    ELSE IF tag = "Rotate" THEN "left"
    ELSE IF tag = "PenUp" THEN "penup"
    ELSE "pendown"

Command(method, arg) == [method |-> method, arg |-> arg]

NoError == [kind |-> "none", name |-> <<>>, needed |-> 0, passed |-> 0]

\* 'ERROR: cannot find the procedure {}'.format(call.procedure_name)
UndefinedProcedureError(call) ==
    [kind |-> "cannot find the procedure", name |-> call.procedure_name,
     needed |-> 0, passed |-> 0]

\* 'ERROR: wrong number of argument for the function {} (needed {}, passed {})'
ArityError(procedure, call) ==
    [kind |-> "wrong number of argument", name |-> procedure.name,
     needed |-> Len(procedure.arguments), passed |-> Len(call.arguments)]

\* for name, argument in zip(procedure.arguments, call.arguments), from the
\* i-th pair on: child_env.set(name, evaluate_expression(argument, environment))
RECURSIVE BindArguments(_, _, _, _, _, _)
BindArguments(es, child_env, e, names, arguments, i) ==
    IF i > Len(names) \/ i > Len(arguments) THEN es
    ELSE Bind(EnvSet(es, child_env, names[i], EvaluateExpression(arguments[i], es, e)),
              LAMBDA es1 : BindArguments(es1, child_env, e, names, arguments, i + 1))

\* the lookups of the arguments of a call, in order
RECURSIVE ArgumentLookups(_, _, _, _)
ArgumentLookups(arguments, es, e, i) ==
    IF i > Len(arguments) THEN <<>>
    ELSE Lookups(arguments[i], es, e) \o ArgumentLookups(arguments, es, e, i + 1)

\* run() returns from its innermost activation
Return ==
    /\ estack' = Pop1(estack)
    /\ estatus' = IF Len(estack) = 1 THEN "done" ELSE "running"

\* run() raises
Raise(exc) ==
    /\ estatus' = exc
    /\ UNCHANGED estack

Step(error, resolved, evals) ==
    einfo' = [einfo EXCEPT !.error = error, !.resolved = resolved, !.evals = @ + evals]

\* AstForward, AstBackward, AstRotate.  The turtle multiplies its heading by
\* the distance and adds the angle to it: a value that is no number (None)
\* raises TypeError inside it and nothing is drawn.
RunMove ==
    /\ estatus = "running"
    /\ Top(estack).node.tag \in {"Forward", "Backward", "Rotate"}
    /\ \E f \in {Top(estack)} :
       \E n \in {EvaluateExpression(f.node.n, envs, f.env)} :
          /\ IF n.tag = "num"
             THEN /\ device' = Append(device, Command(DeviceMethod(f.node.tag), n))
                  /\ Return
             ELSE /\ Raise("TypeError")
                  /\ UNCHANGED device
          /\ Step(NoError, Lookups(f.node.n, envs, f.env), 1)
    /\ UNCHANGED <<envs, text, lexer, lexerVars, parserVars>>

\* AstPenUp, AstPenDown
RunPen ==
    /\ estatus = "running"
    /\ Top(estack).node.tag \in {"PenUp", "PenDown"}
    /\ device' = Append(device, Command(DeviceMethod(Top(estack).node.tag), NoneValue))
    /\ Return
    /\ Step(NoError, <<>>, 0)
    /\ UNCHANGED <<envs, text, lexer, lexerVars, parserVars>>

\* AstBlock: for instruction in node.body: run(instruction, environment, turtle)
RunBlock ==
    /\ estatus = "running"
    /\ Top(estack).node.tag = "Block"
    /\ \E f \in {Top(estack)} :
          IF f.k < Len(f.node.body)
          THEN /\ estack' = Append([estack EXCEPT ![Len(estack)].k = f.k + 1],
                                   RunFrame(f.node.body[f.k + 1], f.env))
               /\ estatus' = "running"
          ELSE Return
    /\ Step(NoError, <<>>, 0)
    /\ UNCHANGED <<envs, device, text, lexer, lexerVars, parserVars>>

\* AstRepeat: times = evaluate_expression(...); n = int(times); for i in range(n): run(node.block, ...)
RunRepeat ==
    /\ estatus = "running"
    /\ Top(estack).node.tag = "Repeat"
    /\ \E f \in {Top(estack)} :
          IF f.phase = 0
          THEN \E times \in {EvaluateExpression(f.node.times, envs, f.env)} :
                  /\ IF times.tag = "num"
                     THEN /\ estack' = [estack EXCEPT ![Len(estack)] =
                                           [f EXCEPT !.phase = 1, !.times = times,
                                                     !.n = Trunc(times.v),
                                                     !.dev0 = Len(device)]]
                          /\ estatus' = "running"
                     ELSE Raise("TypeError")            \* int(None)
                  /\ Step(NoError, Lookups(f.node.times, envs, f.env), 1)
          ELSE IF f.k < f.n
          THEN /\ estack' = Append([estack EXCEPT ![Len(estack)].k = f.k + 1],
                                   RunFrame(f.node.block, f.env))
               /\ estatus' = "running"
               /\ Step(NoError, <<>>, 0)
          ELSE /\ Return
               /\ einfo' = [einfo EXCEPT !.error = NoError, !.resolved = <<>>,
                                         !.finished = Append(@, [f EXCEPT !.dev1 = Len(device)])]
    /\ UNCHANGED <<envs, device, text, lexer, lexerVars, parserVars>>

\* AstProcedure: environment.set(procedure.name, procedure)
RunProcedure ==
    /\ estatus = "running"
    /\ Top(estack).node.tag = "Procedure"
    /\ envs' = EnvSet(envs, Top(estack).env, Top(estack).node.name, Top(estack).node)
    /\ Return
    /\ Step(NoError, <<>>, 0)
    /\ UNCHANGED <<device, text, lexer, lexerVars, parserVars>>

\* the call that creates the child environment and binds the arguments
\* before it compares the counts
CallProcedureBindFirst(f, procedure) ==
    IF ~Truthy(procedure)
    THEN /\ Raise("LogoParserError")
         /\ Step(UndefinedProcedureError(f.node),
                 <<[env |-> f.env, name |-> f.node.procedure_name, value |-> procedure]>>, 0)
         /\ UNCHANGED envs
    ELSE /\ envs' = BindArguments(CreateChild(envs, f.env), Len(envs) + 1, f.env,
                                  procedure.arguments, f.node.arguments, 1)
         /\ IF Len(procedure.arguments) # Len(f.node.arguments)
            THEN /\ Raise("LogoParserError")
                 /\ Step(ArityError(procedure, f.node),
                         <<[env |-> f.env, name |-> f.node.procedure_name, value |-> procedure]>>
                         \o ArgumentLookups(f.node.arguments, envs, f.env, 1),
                         Len(f.node.arguments))
            ELSE /\ estack' = Append([estack EXCEPT ![Len(estack)].phase = 1],
                                     RunFrame(procedure.body, Len(envs) + 1))
                 /\ estatus' = "running"
                 /\ Step(NoError,
                         <<[env |-> f.env, name |-> f.node.procedure_name, value |-> procedure]>>
                         \o ArgumentLookups(f.node.arguments, envs, f.env, 1),
                         Len(f.node.arguments))

\* AstProcedureCall, once procedure = environment.resolve(call.procedure_name)
CallProcedure(f, procedure) ==
    IF ~Truthy(procedure)
    THEN /\ Raise("LogoParserError")
         /\ Step(UndefinedProcedureError(f.node),
                 <<[env |-> f.env, name |-> f.node.procedure_name, value |-> procedure]>>, 0)
         /\ UNCHANGED envs
    ELSE IF Len(procedure.arguments) # Len(f.node.arguments)
    THEN /\ Raise("LogoParserError")
         /\ Step(ArityError(procedure, f.node),
                 <<[env |-> f.env, name |-> f.node.procedure_name, value |-> procedure]>>, 0)
         /\ UNCHANGED envs
    ELSE /\ envs' = BindArguments(CreateChild(envs, f.env), Len(envs) + 1, f.env,
                                  procedure.arguments, f.node.arguments, 1)
         /\ estack' = Append([estack EXCEPT ![Len(estack)].phase = 1],
                             RunFrame(procedure.body, Len(envs) + 1))
         /\ estatus' = "running"
         /\ Step(NoError,
                 <<[env |-> f.env, name |-> f.node.procedure_name, value |-> procedure]>>
                 \o ArgumentLookups(f.node.arguments, envs, f.env, 1),
                 Len(f.node.arguments))

\* AstProcedureCall
RunProcedureCall ==
    /\ estatus = "running"
    /\ Top(estack).node.tag = "ProcedureCall"
    /\ \E f \in {Top(estack)} :
          IF f.phase = 0
          THEN \E procedure \in {Resolve(envs, f.env, f.node.procedure_name)} :
                  CallProcedure(f, procedure)
          ELSE /\ Return                    \* run(procedure.body, child_env, turtle) returned
               /\ Step(NoError, <<>>, 0)
               /\ UNCHANGED envs
    /\ UNCHANGED <<device, text, lexer, lexerVars, parserVars>>

\* else: raise RuntimeError('Unknow instruction ...'): the None that
\* parse_instruction returned for a token that starts no instruction
RunUnknown ==
    /\ estatus = "running"
    /\ Top(estack).node.tag \notin {"Forward", "Backward", "Rotate", "PenUp", "PenDown",
                                    "Block", "Repeat", "Procedure", "ProcedureCall"}
    /\ Raise("RuntimeError")
    /\ Step(NoError, <<>>, 0)
    /\ UNCHANGED <<envs, device, text, lexer, lexerVars, parserVars>>

-----------------------------------------------------------------------------
(* Texts *)

RECURSIVE SeqsUpTo(_, _)
SeqsUpTo(S, n) ==
    IF n = 0 THEN {<<>>}
    ELSE LET shorter == SeqsUpTo(S, n - 1)
         IN  shorter \cup {Append(s, c) : s \in {x \in shorter : Len(x) = n - 1}, c \in S}

LexAlphabet == {"a", "1", ".", "-", " ", "\n", "#", "[", "@"}

\* longer texts: each keyword in some case, an identifier, a symbol, numerals
LexSamples ==
    { <<"T","o"," ","e","N","d">>,
      <<"R","e","p","e","a","t","1">>,
      <<"r","E","p","e","a","t"," ","1","2",".","5","]">>,
      <<"r","o","t","a","t","e"," ","-","4",".","0","2">>,
      <<"b","a","c","k","w","a","r","d","\t",":","s","_","1">>,
      <<"f","o","r","w","a","r","d"," ",":","s","\n","p","e","n","u","p">>,
      <<"p","e","n","d","o","w","n"," ","#","c","\n","\n","x","_","y">>,
      <<"1","2","."," ","7">> }

LexTexts == SeqsUpTo(LexAlphabet, MaxLen) \cup LexSamples

\* the kinds SpecLexer calls match and maybe_match with
MatchKinds == {"NUMBER", "IDENTIFIER", "[", "TO", "EOF"}

KeywordWord(kind) == Keywords[CHOOSE i \in 1..Len(Keywords) : Keywords[i].kind = kind].word

\* the words of a text, each followed by a space
RECURSIVE JoinWords(_)
JoinWords(ws) == IF ws = <<>> THEN <<>> ELSE Head(ws) \o <<" ">> \o JoinWords(Tail(ws))

ParseVocabulary ==
    { KeywordWord("TO"), KeywordWord("END"), KeywordWord("FORWARD"), KeywordWord("REPEAT"),
      <<"f">>, <<"[">>, <<"]">>, <<"0">>, <<"7">>, <<":","x">>, <<"@">> }

\* longer programs: the spec's examples and each instruction of the grammar
ParseSamples ==
    { <<KeywordWord("TO"), <<"s","q">>, <<":","s">>, KeywordWord("FORWARD"), <<":","s">>,
        KeywordWord("ROTATE"), <<"9","0">>, KeywordWord("END"), <<"s","q">>, <<"5","0">>>>,
      <<KeywordWord("REPEAT"), <<"4">>, <<"[">>, KeywordWord("FORWARD"), <<"1","0">>,
        KeywordWord("ROTATE"), <<"9","0">>, <<"]">>>>,
      <<KeywordWord("PENUP"), KeywordWord("PENDOWN"), KeywordWord("BACKWARD"),
        <<"-","1",".","5">>, KeywordWord("REPEAT"), <<"2">>, KeywordWord("FORWARD"), <<"1">>>>,
      <<KeywordWord("TO"), <<"g">>, <<":","a">>, <<":","b">>, KeywordWord("END"),
        <<"g">>, <<"1">>, <<"0">>, <<"2">>>>,
      <<KeywordWord("REPEAT"), <<":","n">>, KeywordWord("REPEAT"), <<"2">>, <<"[">>,
        KeywordWord("TO"), <<"h">>, KeywordWord("END"), <<"h">>, <<"]">>>>,
      <<KeywordWord("TO"), <<"@">>, KeywordWord("PENUP"), KeywordWord("END")>> }

\* the procedures every program of SpecEval starts with:
\*   to a forward :x end
\*   to b :x forward :x a end
\*   to c :x b :y end
\*   to d :n repeat :n [ forward :n rotate 90 ] end
Library ==
    << KeywordWord("TO"), <<"a">>, KeywordWord("FORWARD"), <<":","x">>, KeywordWord("END"),
       KeywordWord("TO"), <<"b">>, <<":","x">>, KeywordWord("FORWARD"), <<":","x">>, <<"a">>,
       KeywordWord("END"),
       KeywordWord("TO"), <<"c">>, <<":","x">>, <<"b">>, <<":","y">>, KeywordWord("END"),
       KeywordWord("TO"), <<"d">>, <<":","n">>, KeywordWord("REPEAT"), <<":","n">>, <<"[">>,
       KeywordWord("FORWARD"), <<":","n">>, KeywordWord("ROTATE"), <<"9","0">>, <<"]">>,
       KeywordWord("END") >>

\* repeat <times> [ forward 10 rotate 90 ]
RepeatSquare(times) ==
    <<KeywordWord("REPEAT"), times, <<"[">>, KeywordWord("FORWARD"), <<"1","0">>,
      KeywordWord("ROTATE"), <<"9","0">>, <<"]">>>>

\* the instructions SpecEval's programs add to the library
MainPhrases ==
    { <<KeywordWord("FORWARD"), <<"2",".","5">>>>,
      <<KeywordWord("FORWARD"), <<":","x">>>>,
      <<KeywordWord("BACKWARD"), <<"-","1",".","5">>>>,
      <<KeywordWord("PENUP")>>,
      <<KeywordWord("PENDOWN")>>,
      RepeatSquare(<<"0">>),
      RepeatSquare(<<"2",".","5">>),
      RepeatSquare(<<"-","1",".","5">>),
      RepeatSquare(<<":","x">>),
      <<KeywordWord("REPEAT"), <<"2">>, <<"b">>, <<"7">>>>,
      <<<<"a">>>>,
      <<<<"b">>, <<"7">>>>,
      <<<<"c">>, <<"7">>>>,
      <<<<"d">>, <<"2",".","5">>>>,
      <<<<"b">>, <<"1">>, <<"2">>>>,
      <<<<"b">>>>,
      <<<<"u">>>>,
      <<<<"u">>, <<":","x">>>>,
      <<KeywordWord("TO"), <<"a">>, <<":","x">>, KeywordWord("PENUP"), KeywordWord("END")>>,
      <<<<"@">>>> }

RECURSIVE Flatten(_)
Flatten(ss) == IF ss = <<>> THEN <<>> ELSE Head(ss) \o Flatten(Tail(ss))

EvalTexts == {JoinWords(Library \o Flatten(ps)) : ps \in SeqsUpTo(MainPhrases, MaxMain)}

ParseTexts == {JoinWords(ws) : ws \in SeqsUpTo(ParseVocabulary, MaxWords) \cup ParseSamples}

-----------------------------------------------------------------------------
(* SpecLexer: any sequence of Lexer calls on a text.  An exception ends the *)
(* program, and a call that hangs never returns: no call follows either.    *)

\* hist: the last call (op, kind), how it ended (out) and the token it
\* returned (tok); peeks, the number of peek() calls that returned since the
\* last consuming call, and peeked, the token the first of them returned;
\* after, the value of peeks when a consuming call was made; refout and
\* reftok, what the same consuming call did on the Lexer that is never peeked
NoCall == [op |-> "none", kind |-> "none", out |-> "ok", tok |-> NoToken,
           peeks |-> 0, peeked |-> NoToken, after |-> 0,
           refout |-> "ok", reftok |-> NoToken]

NoEval == [error |-> NoError, resolved |-> <<>>, finished |-> <<>>, evals |-> 0]

NoParser == [last |-> NoneValue, start |-> NewLexer, stalls |-> 0]

InitLexer ==
    /\ text \in LexTexts
    /\ lexer = NewLexer
    /\ lstatus = "ok"
    /\ hist = NoCall
    /\ ref = NewLexer
    /\ pstack = <<>>
    /\ pstatus = "idle"
    /\ presult = NoneValue
    /\ pinfo = NoParser
    /\ envs = <<>>
    /\ estack = <<>>
    /\ device = <<>>
    /\ estatus = "idle"
    /\ einfo = NoEval

\* a call that consumes (pop, match, maybe_match), made on both Lexers
Consume(op, kind, r, rr) ==
    /\ lexer' = r.lx
    /\ lstatus' = r.out
    /\ ref' = rr.lx
    /\ hist' = [op |-> op, kind |-> kind, out |-> r.out, tok |-> r.tok,
                peeks |-> 0, peeked |-> hist.peeked, after |-> hist.peeks,
                refout |-> rr.out, reftok |-> rr.tok]
    /\ UNCHANGED <<text, parserVars, evalVars>>

LexPop ==
    /\ lstatus = "ok"
    /\ pstatus = "idle"
    /\ \E r \in {Pop(text, lexer)}, rr \in {Pop(text, ref)} :
          Consume("pop", "none", r, rr)

LexPeek ==
    /\ lstatus = "ok"
    /\ pstatus = "idle"
    /\ hist.peeks < MaxPeeks
    /\ \E r \in {Peek(text, lexer)} :
           /\ lexer' = r.lx
           /\ lstatus' = r.out
           /\ hist' = [hist EXCEPT !.op = "peek", !.kind = "none", !.out = r.out,
                                   !.tok = r.tok,
                                   !.peeks = IF r.out = "ok" THEN @ + 1 ELSE @,
                                   !.peeked = IF hist.peeks = 0 THEN r.tok ELSE @]
    /\ UNCHANGED <<text, ref, parserVars, evalVars>>

LexMatch ==
    /\ lstatus = "ok"
    /\ pstatus = "idle"
    /\ \E kind \in MatchKinds :
          \E r \in {Match(text, lexer, kind)}, rr \in {Match(text, ref, kind)} :
             Consume("match", kind, r, rr)

LexMaybeMatch ==
    /\ lstatus = "ok"
    /\ pstatus = "idle"
    /\ \E kind \in MatchKinds :
          \E r \in {MaybeMatch(text, lexer, kind)}, rr \in {MaybeMatch(text, ref, kind)} :
             Consume("maybe_match", kind, r, rr)

NextLexer == LexPop \/ LexPeek \/ LexMatch \/ LexMaybeMatch

SpecLexer == InitLexer /\ [][NextLexer]_vars

-----------------------------------------------------------------------------
(* SpecParser: LogoParser(f).parse() on a text, one loop iteration a step *)

InitParser ==
    /\ text \in ParseTexts
    /\ lexer = NewLexer
    /\ lstatus = "ok"
    /\ hist = NoCall
    /\ ref = NewLexer
    /\ pstack = <<Frame("file", NoneValue, NoToken, <<>>)>>
    /\ pstatus = "running"
    /\ presult = NoneValue
    /\ pinfo = NoParser
    /\ envs = <<>>
    /\ estack = <<>>
    /\ device = <<>>
    /\ estatus = "idle"
    /\ einfo = NoEval

\* One iteration of the parser; stalls counts the iterations that stalled.
ParseStep ==
    /\ pstatus = "running"
    /\ \E s \in {ParserIteration(text, lexer, pstack)} :
          \E stalled \in {Stalled(s, lexer, pstack)} :
             /\ stalled => pinfo.stalls < MaxStall
             /\ lexer' = s.lx
             /\ pstack' = s.stack
             /\ pstatus' = s.status
             /\ presult' = s.result
             /\ pinfo' = [last |-> s.last, start |-> s.start,
                          stalls |-> IF stalled THEN pinfo.stalls + 1 ELSE pinfo.stalls]
    /\ UNCHANGED <<text, lexerVars, evalVars>>

NextParser == ParseStep

SpecParser == InitParser /\ [][NextParser]_vars

-----------------------------------------------------------------------------
(* SpecEval: the main program on a text that parses: ast = parse(), then    *)
(* run(ast, Environment(), Turtle()), one activation's step at a time       *)

InitEval ==
    /\ text \in EvalTexts
    /\ \E p \in {Parse(text)} :
          /\ p.status = "done"
          /\ lexer = p.lx
          /\ presult = p.result
          /\ estack = <<RunFrame(p.result, 1)>>
    /\ lstatus = "ok"
    /\ hist = NoCall
    /\ ref = NewLexer
    /\ pstack = <<>>
    /\ pstatus = "done"
    /\ pinfo = NoParser
    /\ envs = <<NewEnvironment(0)>>
    /\ device = <<>>
    /\ estatus = "running"
    /\ einfo = NoEval

NextEval ==
    \/ RunMove
    \/ RunPen
    \/ RunBlock
    \/ RunRepeat
    \/ RunProcedure
    \/ RunProcedureCall
    \/ RunUnknown

SpecEval == InitEval /\ [][NextEval]_vars

-----------------------------------------------------------------------------
(* SpecEnv: any sequence of set, create_child and resolve calls on the      *)
(* Environments grown from one root                                          *)

\* the names and the values SpecEnv sets: the number 0, a number that is
\* not 0, and None
EnvNames == {<<":", "x">>, <<":", "y">>}
EnvValues == {Number(0), Number(Scale), NoneValue}

InitEnv ==
    /\ text = <<>>
    /\ lexer = NewLexer
    /\ lstatus = "ok"
    /\ hist = NoCall
    /\ ref = NewLexer
    /\ pstack = <<>>
    /\ pstatus = "idle"
    /\ presult = NoneValue
    /\ pinfo = NoParser
    /\ envs = <<NewEnvironment(0)>>
    /\ estack = <<>>
    /\ device = <<>>
    /\ estatus = "idle"
    /\ einfo = NoEval

\* environment.create_child()
EnvCreateChild ==
    /\ estatus = "idle"
    /\ Len(envs) < MaxEnvs
    /\ \E e \in 1..Len(envs) : envs' = CreateChild(envs, e)
    /\ einfo' = NoEval
    /\ UNCHANGED <<text, lexer, lexerVars, parserVars, estack, device, estatus>>

\* environment.set(name, value)
EnvSetName ==
    /\ estatus = "idle"
    /\ \E e \in 1..Len(envs), name \in EnvNames, value \in EnvValues :
          envs' = EnvSet(envs, e, name, value)
    /\ einfo' = NoEval
    /\ UNCHANGED <<text, lexer, lexerVars, parserVars, estack, device, estatus>>

\* environment.resolve(name)
EnvResolve ==
    /\ estatus = "idle"
    /\ \E e \in 1..Len(envs), name \in EnvNames :
          einfo' = [NoEval EXCEPT !.resolved =
                       <<[env |-> e, name |-> name, value |-> Resolve(envs, e, name)]>>]
    /\ UNCHANGED <<text, lexer, lexerVars, parserVars, envs, estack, device, estatus>>

NextEnv == EnvCreateChild \/ EnvSetName \/ EnvResolve

SpecEnv == InitEnv /\ [][NextEnv]_vars

-----------------------------------------------------------------------------
(* What the claims are stated with *)

\* the binding of name in the nearest scope of e's chain that has it set,
\* NoneValue ("not found") when no scope has
RECURSIVE NearestBinding(_, _, _)
NearestBinding(es, e, name) ==
    IF name \in DOMAIN es[e].names THEN es[e].names[name]
    ELSE IF es[e].parent # 0 THEN NearestBinding(es, es[e].parent, name)
    ELSE NoneValue

\* some scope of e's chain has name set
RECURSIVE IsBound(_, _, _)
IsBound(es, e, name) ==
    \/ name \in DOMAIN es[e].names
    \/ es[e].parent # 0 /\ IsBound(es, es[e].parent, name)

\* the value of an expression when a symbol stands for its nearest binding
ValueOf(expr, es, e) ==
    IF expr.tag = "SymbolReference" THEN NearestBinding(es, e, expr.name) ELSE expr

\* the expression a NUMBER or SYMBOL token stands for
ExprOf(tok) ==
    IF tok.kind = "NUMBER" THEN Number(Float(tok.content))
    ELSE AstSymbolReference(tok.content)

\* the maximal run of NUMBER and SYMBOL tokens read from lx on: the
\* expressions (args), the call that read the first other token (stop) and
\* the Lexer before that call (before)
RECURSIVE ArgumentRun(_, _)
ArgumentRun(t, lx) ==
    Bind(Pop(t, lx), LAMBDA r :
        IF r.out # "ok" \/ r.tok.kind \notin {"NUMBER", "SYMBOL"}
        THEN [args |-> <<>>, stop |-> r, before |-> lx]
        ELSE Bind(ArgumentRun(t, r.lx), LAMBDA rest :
            [args |-> <<ExprOf(r.tok)>> \o rest.args, stop |-> rest.stop,
             before |-> rest.before]))

\* s repeated n times
RECURSIVE Repeated(_, _)
Repeated(s, n) == IF n <= 0 THEN <<>> ELSE s \o Repeated(s, n - 1)

\* a block of moves and pen commands only
IsStraight(block) ==
    /\ block.tag = "Block"
    /\ \A i \in 1..Len(block.body) :
          block.body[i].tag \in {"Forward", "Backward", "Rotate", "PenUp", "PenDown"}

\* the device commands of one run of a straight block in environment e
BodyCommands(block, es, e) ==
    [i \in 1..Len(block.body) |->
        Command(DeviceMethod(block.body[i].tag),
                IF block.body[i].tag \in {"PenUp", "PenDown"} THEN NoneValue
                ELSE EvaluateExpression(block.body[i].n, es, e))]

IsPrefix(s, t) == Len(s) <= Len(t) /\ s = SubSeq(t, 1, Len(s))

Max(a, b) == IF a >= b THEN a ELSE b

\* n is v truncated toward zero
IsTruncation(v, n) ==
    IF v >= 0 THEN n * Scale <= v /\ v < (n + 1) * Scale
    ELSE (n - 1) * Scale < v /\ v <= n * Scale

-----------------------------------------------------------------------------
(* The claims *)

\* C1: every lookup run() makes, Environment.resolve(name) from scope e,
\* returns the binding of the nearest scope of e's chain in which the name is
\* set, whatever the bound value is, and "not found" only when no scope on
\* the chain has the name set.
C1_ResolveNearestBinding ==
    \A i \in 1..Len(einfo.resolved) :
        einfo.resolved[i].value
            = NearestBinding(envs, einfo.resolved[i].env, einfo.resolved[i].name)

\* C2: the arguments of a ProcedureCall that parse_instruction returned are
\* exactly the maximal run of NUMBER and SYMBOL tokens after the IDENTIFIER,
\* and the token that ends the run is the parser's next token: not consumed.
C2_ArgumentsAreMaximalRun ==
    pinfo.last.tag = "ProcedureCall" =>
        \E run \in {ArgumentRun(text, pinfo.start)} :
            /\ pinfo.last.arguments = run.args
            /\ (run.stop.out = "ok" /\ run.stop.tok # NoToken) =>
                  /\ Peek(text, lexer).tok = run.stop.tok
                  /\ lexer.index = run.stop.lx.index

\* C3: parse() never keeps looping on a token it cannot consume: no iteration
\* of its loops leaves the parser running in the state it started in.
C3_ParseTerminates == pinfo.stalls = 0

\* Once a loop of the parser has stalled, each further iteration stalls.
StallIsForever == [][pinfo.stalls > 0 => pinfo'.stalls > pinfo.stalls]_vars

\* C4: pop() never returns normally with a no-token value, and when it fails
\* it fails with a lexer error (LogoParserError), not with another exception.
C4_PopFailsWithLexerError ==
    hist.op = "pop" =>
        /\ hist.out = "ok" => hist.tok # NoToken
        /\ hist.out \in {"ok", "LogoParserError", "hang"}

\* C5: a step of run() on a ProcedureCall whose name is bound in no scope of
\* the chain raises the undefined-procedure error naming that identifier, and
\* one on a call whose number of arguments differs from the arity of the
\* procedure bound raises the arity error with 'needed <arity>, passed
\* <supplied>'; either step issues no device command, evaluates no argument
\* and changes no environment.
C5_CallErrors ==
    [][ (estatus = "running" /\ Top(estack).node.tag = "ProcedureCall"
                             /\ Top(estack).phase = 0) =>
        LET call == Top(estack).node
            bound == NearestBinding(envs, Top(estack).env, call.procedure_name)
            untouched == /\ device' = device
                         /\ envs' = envs
                         /\ einfo'.evals = einfo.evals
        IN  /\ ~IsBound(envs, Top(estack).env, call.procedure_name) =>
                  /\ estatus' = "LogoParserError"
                  /\ einfo'.error.kind = "cannot find the procedure"
                  /\ einfo'.error.name = call.procedure_name
                  /\ untouched
            /\ (bound.tag = "Procedure" /\ Len(bound.arguments) # Len(call.arguments)) =>
                  /\ estatus' = "LogoParserError"
                  /\ einfo'.error.kind = "wrong number of argument"
                  /\ einfo'.error.name = call.procedure_name
                  /\ einfo'.error.needed = Len(bound.arguments)
                  /\ einfo'.error.passed = Len(call.arguments)
                  /\ untouched
      ]_vars

\* a one-parameter procedure called with two arguments, after the device
\* has received commands: 'needed 1, passed 2'
C5_Witness ==
    /\ estatus = "LogoParserError"
    /\ einfo.error.kind = "wrong number of argument"
    /\ einfo.error.needed = 1
    /\ einfo.error.passed = 2
    /\ device # <<>>

\* The body of a procedure runs in an environment created by the call, whose
\* parent is the environment of the call site.
BodyEnvIsChildOfCallSite ==
    \A i \in 1..(Len(estack) - 1) :
        (estack[i].node.tag = "ProcedureCall" /\ estack[i].phase = 1) =>
            /\ envs[estack[i + 1].env].parent = estack[i].env
            /\ \A j \in 1..i : estack[j].env # estack[i + 1].env

\* C6: the body of a procedure runs in a newly created environment whose
\* parent is the environment of the call site, the parameters are bound to
\* the values the arguments have in the caller's environment, and a symbol
\* that is free in the body resolves to the binding visible through the
\* caller's chain.
C6_BodyRunsInChildOfCallSite ==
    /\ BodyEnvIsChildOfCallSite
    /\ \A i \in 1..(Len(estack) - 1) :
          (estack[i].node.tag = "ProcedureCall" /\ estack[i].phase = 1 /\ i + 1 = Len(estack)
             /\ estack[i + 1].k = 0) =>
              \E procedure \in {Resolve(envs, estack[i].env, estack[i].node.procedure_name)} :
                 \A j \in 1..Len(procedure.arguments) :
                    envs[estack[i + 1].env].names[procedure.arguments[j]]
                        = ValueOf(estack[i].node.arguments[j], envs, estack[i].env)
    /\ \A i \in 1..Len(einfo.resolved) :
          \E r \in {einfo.resolved[i]} :
             (envs[r.env].parent # 0 /\ r.name \notin DOMAIN envs[r.env].names) =>
                 r.value = NearestBinding(envs, envs[r.env].parent, r.name)

\* C7: a Repeat whose count evaluates to a number runs its block
\* n = trunc(count) times when n > 0 and not at all when n <= 0, each time in
\* the environment of the Repeat, and the device commands of one iteration
\* are all issued, in body order, before any command of the next.
C7_RepeatRunsTruncTimes ==
    /\ \A i \in 1..Len(estack) :
          (estack[i].node.tag = "Repeat" /\ estack[i].phase = 1) =>
              /\ IsTruncation(estack[i].times.v, estack[i].n)
              /\ estack[i].k <= Max(estack[i].n, 0)
              /\ i < Len(estack) =>
                    /\ estack[i + 1].node = estack[i].node.block
                    /\ estack[i + 1].env = estack[i].env
                    /\ estack[i].k >= 1
              /\ IsStraight(estack[i].node.block) =>
                    \E done \in {SubSeq(device, estack[i].dev0 + 1, Len(device))},
                       body \in {BodyCommands(estack[i].node.block, envs, estack[i].env)} :
                          /\ IsPrefix(done, Repeated(body, estack[i].k))
                          /\ i = Len(estack) => done = Repeated(body, estack[i].k)
    /\ \A i \in 1..Len(einfo.finished) :
          \E r \in {einfo.finished[i]} :
              /\ IsTruncation(r.times.v, r.n)
              /\ r.k = Max(r.n, 0)
              /\ IsStraight(r.node.block) =>
                    SubSeq(device, r.dev0 + 1, r.dev1)
                        = Repeated(BodyCommands(r.node.block, envs, r.env), Max(r.n, 0))

\* 'repeat 2.5 [ forward 10 rotate 90 ]' has returned: forward, left, forward, left
C7_Witness ==
    \E i \in 1..Len(einfo.finished) :
        \E r \in {einfo.finished[i]} :
            /\ r.times = Number(Float(<<"2", ".", "5">>))
            /\ r.n = 2
            /\ r.k = 2
            /\ SubSeq(device, r.dev0 + 1, r.dev1)
                  = << Command("forward", Number(Float(<<"1", "0">>))),
                       Command("left", Number(Float(<<"9", "0">>))),
                       Command("forward", Number(Float(<<"1", "0">>))),
                       Command("left", Number(Float(<<"9", "0">>))) >>

\* C8: consecutive peek() calls return the same token, the pop() after them
\* returns that token, and every consuming call ends as it does, with the
\* same token, on a Lexer of the same text that was never peeked.
C8_PeekIdempotent ==
    /\ (hist.op = "peek" /\ hist.out = "ok") => hist.tok = hist.peeked
    /\ (hist.op = "pop" /\ hist.out = "ok" /\ hist.after > 0) => hist.tok = hist.peeked
    /\ hist.op \in {"pop", "match", "maybe_match"} =>
          /\ hist.out = hist.refout
          /\ hist.tok = hist.reftok

\* two peeks, then a pop, all three returning the same NUMBER token
C8_Witness ==
    /\ hist.op = "pop"
    /\ hist.out = "ok"
    /\ hist.after >= 2
    /\ hist.tok.kind = "NUMBER"
    /\ hist.tok = hist.peeked

\* C9: a Forward, Backward or Rotate node that parse_instruction returned
\* carries an expression: its argument is never absent.
C9_MoveHasArgument ==
    pinfo.last.tag \in {"Forward", "Backward", "Rotate"} => pinfo.last.n # NoneValue

\* C10: skipping whitespace and comments terminates: no Lexer call hangs.
C10_EatSpacesTerminates == lstatus # "hang"

====
